---- MODULE Spec2Model ----
(***************************************************************************)
(* Verification engine of the data-relay test harness.                     *)
(*                                                                         *)
(*   validateDataIntegrity / validateDistribution                          *)
(*       (automation/src/validation.ts),                                   *)
(*   buildFrequency / subtractFrequency (utils/frequency.ts),              *)
(*   readLinesFromFile / countLines (utils/files.ts),                      *)
(*   waitForCompletion / readFileSize (utils/waitForCompletion.ts)         *)
(*                                                                         *)
(* File contents are sequences of characters.  The pipeline under test is  *)
(* the environment: the producer appends records to the source, the        *)
(* splitter delivers every record to one of the two sinks, and a fault     *)
(* may alter one sink.  The validation pass is then stepped statement by   *)
(* statement.  Spec is the integrity specification, SpecWait the           *)
(* completion-detection specification and SpecDist the specification of    *)
(* validateDistribution over arbitrary LineCounts.                         *)
(***************************************************************************)
EXTENDS Integers, Sequences, FiniteSets, Bags

(* ---------------------------- bounds ----------------------------------- *)
MaxSourceLen == 4
MaxFaults == 1

(* ---------------------------- characters ------------------------------- *)
LF == "LF"
CR == "CR"
PayloadChars == {"a", "b"}
Chars == PayloadChars \cup {CR, LF}

Undefined == "undefined"

RECURSIVE SeqsUpTo(_, _)
SeqsUpTo(S, n) ==
  IF n = 0 THEN {<<>>}
  ELSE LET shorter == SeqsUpTo(S, n - 1)
       IN  shorter \cup {Append(s, x) : s \in shorter, x \in S}

Payloads == SeqsUpTo(PayloadChars, MaxSourceLen)
Terminators == {<<LF>>, <<CR, LF>>}

Last(s) == s[Len(s)]

(* ------------------------- utils/frequency.ts -------------------------- *)
EmptyMap == [ch \in {} |-> 0]

MapSet(m, k, v) == [x \in (DOMAIN m) \cup {k} |-> IF x = k THEN v ELSE m[x]]

MapDelete(m, k) == [x \in (DOMAIN m) \ {k} |-> m[x]]

MapSize(m) == Cardinality(DOMAIN m)

RECURSIVE buildFrom(_, _)
buildFrom(frequency, text) ==
  IF text = <<>> THEN frequency
  ELSE LET ch == Head(text)
           old == IF ch \in DOMAIN frequency THEN frequency[ch] ELSE 0
       IN  buildFrom(MapSet(frequency, ch, old + 1), Tail(text))

RECURSIVE buildFrom_countsFromZero(_, _)
buildFrom_countsFromZero(frequency, text) ==
  IF text = <<>> THEN frequency
  ELSE LET ch == Head(text)
       IN  buildFrom_countsFromZero(
             MapSet(frequency, ch, IF ch \in DOMAIN frequency THEN frequency[ch] + 1 ELSE 0),
             Tail(text))

buildFrequency_countsFromZero(text) == buildFrom_countsFromZero(EmptyMap, text)

buildFrequency(text) == buildFrom(EmptyMap, text)

RECURSIVE subtractFrequency_keepsZeroEntries(_, _)
subtractFrequency_keepsZeroEntries(sourceFreq, targetText) ==
  IF targetText = <<>> THEN [ok |-> TRUE, freq |-> sourceFreq]
  ELSE LET ch == Head(targetText)
       IN  IF ch \notin DOMAIN sourceFreq \/ sourceFreq[ch] = 0
             THEN [ok |-> FALSE, freq |-> sourceFreq]
             ELSE subtractFrequency_keepsZeroEntries(
                    MapSet(sourceFreq, ch, sourceFreq[ch] - 1), Tail(targetText))

RECURSIVE subtractContinuing(_, _, _)
subtractContinuing(sourceFreq, targetText, ok) ==
  IF targetText = <<>> THEN [ok |-> ok, freq |-> sourceFreq]
  ELSE LET ch == Head(targetText)
       IN  IF ch \notin DOMAIN sourceFreq
             THEN subtractContinuing(sourceFreq, Tail(targetText), FALSE)
             ELSE IF sourceFreq[ch] = 1
                    THEN subtractContinuing(MapDelete(sourceFreq, ch), Tail(targetText), ok)
                    ELSE subtractContinuing(MapSet(sourceFreq, ch, sourceFreq[ch] - 1),
                                            Tail(targetText), ok)

subtractFrequency_continuesAfterMiss(sourceFreq, targetText) ==
  subtractContinuing(sourceFreq, targetText, TRUE)

RECURSIVE subtractFrequency(_, _)
subtractFrequency(sourceFreq, targetText) ==
  IF targetText = <<>> THEN [ok |-> TRUE, freq |-> sourceFreq]
  ELSE LET ch == Head(targetText)
       IN  IF ch \notin DOMAIN sourceFreq
             THEN [ok |-> FALSE, freq |-> sourceFreq]
             ELSE IF sourceFreq[ch] = 1
                    THEN subtractFrequency(MapDelete(sourceFreq, ch), Tail(targetText))
                    ELSE subtractFrequency(MapSet(sourceFreq, ch, sourceFreq[ch] - 1),
                                           Tail(targetText))

(* --------------------------- utils/files.ts ---------------------------- *)
StripCR_keepsCR(segment) == segment

StripCR(segment) ==
  IF segment # <<>> /\ Last(segment) = CR
    THEN SubSeq(segment, 1, Len(segment) - 1)
    ELSE segment

RECURSIVE splitCRLF(_, _)
splitCRLF(content, current) ==
  IF content = <<>> THEN <<current>>
  ELSE IF Head(content) = LF
         THEN <<StripCR(current)>> \o splitCRLF(Tail(content), <<>>)
         ELSE splitCRLF(Tail(content), Append(current, Head(content)))

readLinesFromFile_keepTrailing(content) == splitCRLF(content, <<>>)

readLinesFromFile(content) ==
  LET arr == splitCRLF(content, <<>>)
  IN  IF arr[Len(arr)] = <<>> THEN SubSeq(arr, 1, Len(arr) - 1) ELSE arr

RECURSIVE splitLF(_, _)
splitLF(content, current) ==
  IF content = <<>> THEN <<current>>
  ELSE IF Head(content) = LF
         THEN <<current>> \o splitLF(Tail(content), <<>>)
         ELSE splitLF(Tail(content), Append(current, Head(content)))

countLines_segments(buffer) ==
  IF Len(buffer) = 0 THEN 0 ELSE Len(splitLF(buffer, <<>>))

countLines_noEmptyGuard(buffer) ==
  LET count == Len(splitLF(buffer, <<>>))
  IN  IF count < 0 THEN 0 ELSE count

countLines(buffer) ==
  IF Len(buffer) = 0 THEN 0
  ELSE LET count == Len(splitLF(buffer, <<>>)) - 1
       IN  IF count < 0 THEN 0 ELSE count


(* ------------------------- state: the pipeline ------------------------- *)
VARIABLES
  source,        \* content of the source file
  target1,       \* content of sink 1's output file
  target2,       \* content of sink 2's output file
  emitted,       \* records the producer wrote, in order
  inflight,      \* records emitted and not yet delivered to a sink
  delivered1,    \* records the splitter delivered to sink 1, in order
  delivered2,    \* records the splitter delivered to sink 2, in order
  faults,        \* number of faults injected into the sinks
  lastFault      \* kind of the last fault: "none", "mutate" or "transpose"

(* ------------------- state: validateDataIntegrity ---------------------- *)
VARIABLES
  pc,            \* position in validateDataIntegrity ("feed" before the call)
  sourceBuf, target1Buf, target2Buf,
  sourceLines, target1Lines, target2Lines,
  orderMatches,
  sourceFreq,    \* the ledger (Undefined before it is built)
  ok1, ok2,
  ledgerBuilds,  \* number of buildFrequency calls made
  subtractCalls, \* number of subtractFrequency calls made
  outcome,       \* "none", "ok", "LineCountMismatch", "ReconciliationFailed"
  errSource, errTargets,   \* the two numbers carried by the line-count error
  warned,        \* logger.warn was called
  result         \* the LineCounts returned (Undefined until returned)

pipeVars == <<source, target1, target2, emitted, inflight, delivered1, delivered2,
              faults, lastFault>>
bufVars == <<sourceBuf, target1Buf, target2Buf>>
lineVars == <<sourceLines, target1Lines, target2Lines>>
ledgerVars == <<sourceFreq, ok1, ok2, ledgerBuilds, subtractCalls>>
endVars == <<outcome, errSource, errTargets, warned, result>>
valVars == <<pc, bufVars, lineVars, orderMatches, ledgerVars, endVars>>

(* --------------------- state: waitForCompletion ------------------------ *)
VARIABLES
  targets,          \* the WaitTarget list passed to the call
  timeoutMs, pollIntervalMs, stabilizationMs,
  fileSize,         \* actual size of every watched file (the environment)
  now,              \* Date.now()
  startTime,
  wpc,              \* position in waitForCompletion
  lastSizes,        \* Map container -> size, of the previous poll
  currentSizes,     \* Map container -> size, of the poll in progress
  stableCount,
  readIndex,        \* index of the next target the poll reads
  errorsLogged,     \* number of logger.error calls (failed size reads)
  waitSizes,        \* the sizes of the DONE result
  waitError,        \* "none", "InsufficientTargets" or "Timeout"
  waitErrorData,    \* the values the thrown Error's message interpolates
  polls,            \* history: number of polls evaluated so far
  observed,         \* history: sizes read in the last poll, by target index
  prevObserved,     \* history: sizes read in the poll before it, by target index
  stableBefore,     \* history: stableCount before the last evaluation
  grewDuringWait,   \* history: a watched file grew after the call started
  ownStablePolls,   \* history: latest consecutive polls in which every target's
                    \*   own size repeated its previous one, at or above minimum
  unsettled,        \* history: targets whose own size changed in every poll so far
  masked            \* history: targets whose read in the last poll failed while
                    \*   the file held bytes, and was taken as 0

waitParams == <<targets, timeoutMs, pollIntervalMs, stabilizationMs>>
waitHistory == <<polls, observed, prevObserved, stableBefore, grewDuringWait,
                 ownStablePolls, unsettled, masked>>
waitVars == <<waitParams, fileSize, now, startTime, wpc, lastSizes, currentSizes,
              stableCount, readIndex, errorsLogged, waitSizes, waitError, waitErrorData,
              waitHistory>>

(* --------------------- state: validateDistribution --------------------- *)
VARIABLES
  lineCounts,       \* the LineCounts passed to the call
  dpc,              \* position in validateDistribution: "idle", "call", "returned", "threw"
  distError,        \* "none", "NoData", "Target1NoData" or "Target2NoData"
  distLog,          \* the logger.log calls made, in order
  distPercent       \* the two percentages logged, in hundredths (<<>> if none)

distVars == <<lineCounts, dpc, distError, distLog, distPercent>>

(* --------- state: buildFrequency / subtractFrequency on a ledger ------- *)
VARIABLES
  ledger,           \* the CharFrequency map the calls work on
  ledgerBefore,     \* history: the ledger before the last call
  freqOp,           \* the last call: "none", "build" or "subtract"
  freqText,         \* the text passed to the last call
  freqOk            \* what the last subtractFrequency call returned

freqVars == <<ledger, ledgerBefore, freqOp, freqText, freqOk>>

(* --------------- state: readLinesFromFile / countLines ----------------- *)
VARIABLES
  fileContent,      \* the content of the file read
  fpc,              \* "idle", "call" or "read"
  fileLines,        \* what readLinesFromFile returned
  fileCount         \* what countLines returned for the same content

fileVars == <<fileContent, fpc, fileLines, fileCount>>

(* -------------------- state: docker.ts waitForHealth ------------------- *)
VARIABLES
  healthTimeoutMs, healthPollIntervalMs,
  hnow,             \* Date.now()
  deadline,
  hpc,              \* "idle", "start", "loopTest", "ps", "delay", "resolved", "rejected"
  psCalls,          \* number of `docker compose ps` runs
  delays,           \* number of delay(pollIntervalMs) calls
  psWarnings,       \* number of logger.warn calls (ps failed)
  lastPs,           \* outcome of the last ps run: "none", "healthy", "pending", "failed"
  psStatuses,       \* the status of each service as the last ps run printed it
  healthError       \* "none" or "NotHealthy"

healthVars == <<healthTimeoutMs, healthPollIntervalMs, hnow, deadline, hpc, psCalls,
                delays, psWarnings, lastPs, psStatuses, healthError>>

(* ------------------- state: docker.ts cleanEnvironment ----------------- *)
VARIABLES
  entries,          \* artifactsDir: entry name -> "absent", "stale", "dir" or "empty"
  entriesBefore,    \* history: the directory as it was before the call
  targetFilenames,  \* the names passed as targetFilenames
  preserve,         \* the names passed as options.preserve
  downFails,        \* `docker compose down -v` throws
  cpc,              \* "idle", "start", "prepare", "remove", "create", "done", "failed"
  toRemove,         \* the entries whose rm has not run yet
  toCreate,         \* the target files whose writeFile has not run yet
  removed,          \* history: the entries rm was called on
  downWarned        \* logger.warn was called for the failed down

cleanVars == <<entries, entriesBefore, targetFilenames, preserve, downFails, cpc,
               toRemove, toCreate, removed, downWarned>>

(* ----------------- state: docker.ts buildImagesIfNeeded ---------------- *)
VARIABLES
  imagesBuiltFlag,  \* process.env.DOCKER_IMAGES_BUILT: "unset" or "true"
  dockerImages,     \* the images `docker images` would list
  buildCalls,       \* number of buildImagesIfNeeded calls made
  listings,         \* number of image listings made
  buildRuns,        \* number of compose build runs started
  buildsCompleted,  \* number of compose build runs that returned
  lastCall,         \* what the last buildImagesIfNeeded call did
  prevCall          \* what the call before it did

buildVars == <<imagesBuiltFlag, dockerImages, buildCalls, listings, buildRuns,
               buildsCompleted, lastCall, prevCall>>

utilVars == <<freqVars, fileVars>>
dockerVars == <<healthVars, cleanVars, buildVars>>

InitPipeline ==
  /\ source = <<>>
  /\ target1 = <<>>
  /\ target2 = <<>>
  /\ emitted = <<>>
  /\ inflight = <<>>
  /\ delivered1 = <<>>
  /\ delivered2 = <<>>
  /\ faults = 0
  /\ lastFault = "none"

InitValidation ==
  /\ pc = "feed"
  /\ sourceBuf = Undefined
  /\ target1Buf = Undefined
  /\ target2Buf = Undefined
  /\ sourceLines = Undefined
  /\ target1Lines = Undefined
  /\ target2Lines = Undefined
  /\ orderMatches = Undefined
  /\ sourceFreq = Undefined
  /\ ok1 = Undefined
  /\ ok2 = Undefined
  /\ ledgerBuilds = 0
  /\ subtractCalls = 0
  /\ outcome = "none"
  /\ errSource = Undefined
  /\ errTargets = Undefined
  /\ warned = FALSE
  /\ result = Undefined

(* --------------------- the pipeline under test ------------------------- *)
Terminated(content) == IF content = <<>> THEN TRUE ELSE Last(content) = LF

RemoveAt(s, i) == SubSeq(s, 1, i - 1) \o SubSeq(s, i + 1, Len(s))

\* The producer appends one record to the source.  A record is a payload
\* followed by its terminator; only the final record may lack a terminator.
Emit ==
  /\ pc = "feed"
  /\ Terminated(source)
  /\ \E payload \in Payloads, term \in Terminators \cup {<<>>} :
       /\ term = <<>> => payload # <<>>
       /\ Len(source) + Len(payload) + Len(term) <= MaxSourceLen
       /\ LET record == payload \o term
          IN  /\ source' = source \o record
              /\ emitted' = Append(emitted, record)
              /\ inflight' = Append(inflight, record)
  /\ UNCHANGED <<target1, target2, delivered1, delivered2, faults, lastFault>>
  /\ UNCHANGED valVars
  /\ UNCHANGED <<waitVars, distVars, utilVars, dockerVars>>

\* The splitter hands one pending record, byte for byte, to one sink.
Deliver ==
  /\ pc = "feed"
  /\ faults = 0
  /\ \E i \in 1..Len(inflight) :
       /\ inflight' = RemoveAt(inflight, i)
       /\ \/ /\ target1' = target1 \o inflight[i]
             /\ delivered1' = Append(delivered1, inflight[i])
             /\ UNCHANGED <<target2, delivered2>>
          \/ /\ target2' = target2 \o inflight[i]
             /\ delivered2' = Append(delivered2, inflight[i])
             /\ UNCHANGED <<target1, delivered1>>
  /\ UNCHANGED <<source, emitted, faults, lastFault>>
  /\ UNCHANGED valVars
  /\ UNCHANGED <<waitVars, distVars, utilVars, dockerVars>>

\* A sink writer appends one pending record to its file while
\* validateDataIntegrity is suspended between its two rounds of reads.
AppendDuringCall ==
  /\ pc = "readLines"
  /\ faults = 0
  /\ \E i \in 1..Len(inflight) :
       /\ inflight' = RemoveAt(inflight, i)
       /\ \/ /\ target1' = target1 \o inflight[i]
             /\ delivered1' = Append(delivered1, inflight[i])
             /\ UNCHANGED <<target2, delivered2>>
          \/ /\ target2' = target2 \o inflight[i]
             /\ delivered2' = Append(delivered2, inflight[i])
             /\ UNCHANGED <<target1, delivered1>>
  /\ UNCHANGED <<source, emitted, faults, lastFault>>
  /\ UNCHANGED valVars
  /\ UNCHANGED <<waitVars, distVars, utilVars, dockerVars>>

\* Fault: one character of one sink is replaced by a different character.
Mutate ==
  /\ pc = "feed"
  /\ faults < MaxFaults
  /\ \/ \E p \in 1..Len(target1), ch \in Chars :
          /\ ch # target1[p]
          /\ target1' = [target1 EXCEPT ![p] = ch]
          /\ UNCHANGED target2
     \/ \E p \in 1..Len(target2), ch \in Chars :
          /\ ch # target2[p]
          /\ target2' = [target2 EXCEPT ![p] = ch]
          /\ UNCHANGED target1
  /\ faults' = faults + 1
  /\ lastFault' = "mutate"
  /\ UNCHANGED <<source, emitted, inflight, delivered1, delivered2>>
  /\ UNCHANGED valVars
  /\ UNCHANGED <<waitVars, distVars, utilVars, dockerVars>>

\* Fault: two adjacent, different characters of one sink change places.
Transpose ==
  /\ pc = "feed"
  /\ faults < MaxFaults
  /\ \/ \E p \in 1..(Len(target1) - 1) :
          /\ target1[p] # target1[p + 1]
          /\ target1' = [target1 EXCEPT ![p] = target1[p + 1], ![p + 1] = target1[p]]
          /\ UNCHANGED target2
     \/ \E p \in 1..(Len(target2) - 1) :
          /\ target2[p] # target2[p + 1]
          /\ target2' = [target2 EXCEPT ![p] = target2[p + 1], ![p + 1] = target2[p]]
          /\ UNCHANGED target1
  /\ faults' = faults + 1
  /\ lastFault' = "transpose"
  /\ UNCHANGED <<source, emitted, inflight, delivered1, delivered2>>
  /\ UNCHANGED valVars
  /\ UNCHANGED <<waitVars, distVars, utilVars, dockerVars>>

(* ---------------- validateDataIntegrity, step by step ------------------ *)
\* The orchestrator calls validateDataIntegrity; the files are then quiescent.
ReadBuffers ==
  /\ pc = "feed"
  /\ sourceBuf' = source
  /\ target1Buf' = target1
  /\ target2Buf' = target2
  /\ pc' = "readLines"
  /\ UNCHANGED pipeVars
  /\ UNCHANGED <<waitVars, distVars, utilVars, dockerVars>>
  /\ UNCHANGED <<lineVars, orderMatches, ledgerVars, endVars>>

ReadLineLists ==
  /\ pc = "readLines"
  /\ sourceLines' = readLinesFromFile(source)
  /\ target1Lines' = readLinesFromFile(target1)
  /\ target2Lines' = readLinesFromFile(target2)
  /\ pc' = "lineCheck"
  /\ UNCHANGED pipeVars
  /\ UNCHANGED <<waitVars, distVars, utilVars, dockerVars>>
  /\ UNCHANGED <<bufVars, orderMatches, ledgerVars, endVars>>

\* combinedTargetLines.every((line, index) => line === sourceLines[index])
EveryLineMatches(combinedTargetLines, lines) ==
  \A index \in 1..Len(combinedTargetLines) :
    index <= Len(lines) /\ combinedTargetLines[index] = lines[index]

CheckLineCount_skipped ==
  /\ pc = "lineCheck"
  /\ orderMatches' = EveryLineMatches(target1Lines \o target2Lines, sourceLines)
  /\ pc' = "build"
  /\ UNCHANGED <<outcome, errSource, errTargets>>
  /\ UNCHANGED pipeVars
  /\ UNCHANGED <<waitVars, distVars, utilVars, dockerVars>>
  /\ UNCHANGED <<bufVars, lineVars, ledgerVars, warned, result>>

CheckLineCount ==
  /\ pc = "lineCheck"
  /\ LET sourceLineCount == Len(sourceLines)
         newlineCountTargets == Len(target1Lines) + Len(target2Lines)
     IN  IF sourceLineCount # newlineCountTargets
           THEN /\ outcome' = "LineCountMismatch"
                /\ errSource' = sourceLineCount
                /\ errTargets' = newlineCountTargets
                /\ pc' = "done"
                /\ UNCHANGED orderMatches
           ELSE /\ orderMatches' = EveryLineMatches(target1Lines \o target2Lines, sourceLines)
                /\ pc' = "build"
                /\ UNCHANGED <<outcome, errSource, errTargets>>
  /\ UNCHANGED pipeVars
  /\ UNCHANGED <<waitVars, distVars, utilVars, dockerVars>>
  /\ UNCHANGED <<bufVars, lineVars, ledgerVars, warned, result>>

BuildLedger ==
  /\ pc = "build"
  /\ sourceFreq' = buildFrequency(sourceBuf)
  /\ ledgerBuilds' = ledgerBuilds + 1
  /\ pc' = "subtract1"
  /\ UNCHANGED pipeVars
  /\ UNCHANGED <<waitVars, distVars, utilVars, dockerVars>>
  /\ UNCHANGED <<bufVars, lineVars, orderMatches, ok1, ok2, subtractCalls, endVars>>

SubtractTarget1 ==
  /\ pc = "subtract1"
  /\ LET r == subtractFrequency(sourceFreq, target1Buf)
     IN  /\ ok1' = r.ok
         /\ sourceFreq' = r.freq
  /\ subtractCalls' = subtractCalls + 1
  /\ pc' = "subtract2"
  /\ UNCHANGED pipeVars
  /\ UNCHANGED <<waitVars, distVars, utilVars, dockerVars>>
  /\ UNCHANGED <<bufVars, lineVars, orderMatches, ok2, ledgerBuilds, endVars>>

SubtractTarget2_reusesTarget1 ==
  /\ pc = "subtract2"
  /\ IF ok1
       THEN LET r == subtractFrequency(sourceFreq, target1Buf)
            IN  /\ ok2' = r.ok
                /\ sourceFreq' = r.freq
                /\ subtractCalls' = subtractCalls + 1
       ELSE /\ ok2' = FALSE
            /\ UNCHANGED <<sourceFreq, subtractCalls>>
  /\ pc' = "reconcile"
  /\ UNCHANGED pipeVars
  /\ UNCHANGED <<waitVars, distVars, utilVars, dockerVars>>
  /\ UNCHANGED <<bufVars, lineVars, orderMatches, ok1, ledgerBuilds, endVars>>

\* ok2 = ok1 && subtractFrequency(...): the second call is made only if ok1
SubtractTarget2 ==
  /\ pc = "subtract2"
  /\ IF ok1
       THEN LET r == subtractFrequency(sourceFreq, target2Buf)
            IN  /\ ok2' = r.ok
                /\ sourceFreq' = r.freq
                /\ subtractCalls' = subtractCalls + 1
       ELSE /\ ok2' = FALSE
            /\ UNCHANGED <<sourceFreq, subtractCalls>>
  /\ pc' = "reconcile"
  /\ UNCHANGED pipeVars
  /\ UNCHANGED <<waitVars, distVars, utilVars, dockerVars>>
  /\ UNCHANGED <<bufVars, lineVars, orderMatches, ok1, ledgerBuilds, endVars>>

CheckReconciled_orderFatal ==
  /\ pc = "reconcile"
  /\ IF ~ok2 \/ MapSize(sourceFreq) # 0 \/ ~orderMatches
       THEN /\ outcome' = "ReconciliationFailed"
            /\ pc' = "done"
            /\ UNCHANGED warned
       ELSE /\ warned' = ~orderMatches
            /\ pc' = "count"
            /\ UNCHANGED outcome
  /\ UNCHANGED pipeVars
  /\ UNCHANGED <<waitVars, distVars, utilVars, dockerVars>>
  /\ UNCHANGED <<bufVars, lineVars, orderMatches, ledgerVars, errSource, errTargets, result>>

CheckReconciled_ignoresLeftover ==
  /\ pc = "reconcile"
  /\ IF ~ok2
       THEN /\ outcome' = "ReconciliationFailed"
            /\ pc' = "done"
            /\ UNCHANGED warned
       ELSE /\ warned' = ~orderMatches
            /\ pc' = "count"
            /\ UNCHANGED outcome
  /\ UNCHANGED pipeVars
  /\ UNCHANGED <<waitVars, distVars, utilVars, dockerVars>>
  /\ UNCHANGED <<bufVars, lineVars, orderMatches, ledgerVars, errSource, errTargets, result>>

CheckReconciled ==
  /\ pc = "reconcile"
  /\ IF ~ok2 \/ MapSize(sourceFreq) # 0
       THEN /\ outcome' = "ReconciliationFailed"
            /\ pc' = "done"
            /\ UNCHANGED warned
       ELSE /\ warned' = ~orderMatches
            /\ pc' = "count"
            /\ UNCHANGED outcome
  /\ UNCHANGED pipeVars
  /\ UNCHANGED <<waitVars, distVars, utilVars, dockerVars>>
  /\ UNCHANGED <<bufVars, lineVars, orderMatches, ledgerVars, errSource, errTargets, result>>

ReturnCounts ==
  /\ pc = "count"
  /\ LET pseudoLines1 == countLines(target1Buf)
         pseudoLines2 == countLines(target2Buf)
         pseudoLinesSrc == countLines(sourceBuf)
     IN  result' = [source |-> pseudoLinesSrc,
                    target1 |-> pseudoLines1,
                    target2 |-> pseudoLines2,
                    total |-> pseudoLines1 + pseudoLines2]
  /\ outcome' = "ok"
  /\ pc' = "done"
  /\ UNCHANGED pipeVars
  /\ UNCHANGED <<waitVars, distVars, utilVars, dockerVars>>
  /\ UNCHANGED <<bufVars, lineVars, orderMatches, ledgerVars, errSource, errTargets, warned>>

IntegrityNext ==
  \/ Emit
  \/ Deliver
  \/ Mutate
  \/ Transpose
  \/ ReadBuffers
  \/ ReadLineLists
  \/ CheckLineCount
  \/ BuildLedger
  \/ SubtractTarget1
  \/ SubtractTarget2
  \/ CheckReconciled
  \/ ReturnCounts

(* ==================== utils/waitForCompletion.ts ======================= *)
MaxTargets == 2
MaxSize == 8
ChunkBytes == 4
MaxPollInterval == 2
MaxStabilization == 3
MaxTimeout == 5
MaxProbeFailures == 1

DefaultMinimumBytes == 1

Containers == {"target_1", "target_2"}
Filepaths == {"/data/events.log", "/data/extra.log"}

\* An optional number is <<>> (absent) or <<n>>.
MinimumChoices == {<<>>, <<0>>, <<ChunkBytes + 1>>}

WaitTargets == [container : Containers, filepath : Filepaths, minimumBytes : MinimumChoices]

FileOf(target) == <<target.container, target.filepath>>

Files == Containers \X Filepaths

\* Target lists are taken up to the naming and the order of their files: the
\* first target is target_1's events.log, the later ones are distinct files
\* of the same or of the other container.
FileRank(file) ==
  (IF file[2] = "/data/events.log" THEN 0 ELSE 2) + (IF file[1] = "target_1" THEN 1 ELSE 2)

TargetLists ==
  {l \in SeqsUpTo(WaitTargets, MaxTargets) :
     /\ Len(l) > 0 => FileRank(FileOf(l[1])) = 1
     /\ \A i, j \in 1..Len(l) : i < j => FileRank(FileOf(l[i])) < FileRank(FileOf(l[j]))}

WatchedFiles == {FileOf(targets[i]) : i \in 1..Len(targets)}

\* Math.ceil(stabilizationMs / pollIntervalMs)
stabilizationTarget == (stabilizationMs + pollIntervalMs - 1) \div pollIntervalMs

MapGet(m, k, default) == IF k \in DOMAIN m THEN m[k] ELSE default

InitWaitIdle ==
  /\ targets = <<>>
  /\ timeoutMs = 0
  /\ pollIntervalMs = 1
  /\ stabilizationMs = 0
  /\ fileSize = [f \in Files |-> 0]
  /\ now = 0
  /\ startTime = 0
  /\ wpc = "idle"
  /\ lastSizes = EmptyMap
  /\ currentSizes = EmptyMap
  /\ stableCount = 0
  /\ readIndex = 1
  /\ errorsLogged = 0
  /\ waitSizes = EmptyMap
  /\ waitError = "none"
  /\ waitErrorData = <<>>
  /\ polls = 0
  /\ observed = <<>>
  /\ prevObserved = <<>>
  /\ stableBefore = 0
  /\ grewDuringWait = FALSE
  /\ ownStablePolls = 0
  /\ unsettled = {}
  /\ masked = {}

InitWait ==
  /\ targets \in TargetLists
  /\ timeoutMs \in {1, MaxTimeout}
  /\ pollIntervalMs \in 1..MaxPollInterval
  /\ stabilizationMs \in 0..MaxStabilization
  /\ fileSize = [f \in Files |-> 0]
  /\ now = 0
  /\ startTime = 0
  /\ wpc = "start"
  /\ lastSizes = EmptyMap
  /\ currentSizes = EmptyMap
  /\ stableCount = 0
  /\ readIndex = 1
  /\ errorsLogged = 0
  /\ waitSizes = EmptyMap
  /\ waitError = "none"
  /\ waitErrorData = <<>>
  /\ polls = 0
  /\ observed = <<>>
  /\ prevObserved = <<>>
  /\ stableBefore = 0
  /\ grewDuringWait = FALSE
  /\ ownStablePolls = 0
  /\ unsettled = {}
  /\ masked = {}

\* A sink appends one chunk to a watched file.  Between the last size read of
\* a poll and the next sleep the call runs without suspension, so growth is
\* observable only before the call, during a sleep or between two reads.
Grow ==
  /\ wpc \in {"start", "sleep", "read"}
  /\ \E f \in WatchedFiles :
       /\ fileSize[f] + ChunkBytes <= MaxSize
       /\ fileSize' = [fileSize EXCEPT ![f] = fileSize[f] + ChunkBytes]
  /\ grewDuringWait' = (grewDuringWait \/ wpc # "start")
  /\ UNCHANGED <<waitParams, now, startTime, wpc, lastSizes, currentSizes, stableCount,
                 readIndex, errorsLogged, waitSizes, waitError, waitErrorData,
                 polls, observed, prevObserved, stableBefore, ownStablePolls, unsettled,
                 masked>>
  /\ UNCHANGED <<pipeVars, valVars, distVars, utilVars, dockerVars>>

WaitStart_acceptsEmpty ==
  /\ wpc = "start"
  /\ startTime' = now
  /\ lastSizes' = EmptyMap
  /\ stableCount' = 0
  /\ wpc' = IF Len(targets) = 0 THEN "done" ELSE "loopTest"
  /\ UNCHANGED <<waitError, waitErrorData>>
  /\ UNCHANGED <<waitParams, fileSize, now, currentSizes, readIndex, errorsLogged,
                 waitSizes, waitHistory>>
  /\ UNCHANGED <<pipeVars, valVars, distVars, utilVars, dockerVars>>

WaitStart ==
  /\ wpc = "start"
  /\ IF Len(targets) = 0
       THEN /\ waitError' = "InsufficientTargets"
            /\ waitErrorData' = <<>>
            /\ wpc' = "failed"
            /\ UNCHANGED <<startTime, lastSizes, stableCount>>
       ELSE /\ startTime' = now
            /\ lastSizes' = EmptyMap
            /\ stableCount' = 0
            /\ wpc' = "loopTest"
            /\ UNCHANGED <<waitError, waitErrorData>>
  /\ UNCHANGED <<waitParams, fileSize, now, currentSizes, readIndex, errorsLogged,
                 waitSizes, waitHistory>>
  /\ UNCHANGED <<pipeVars, valVars, distVars, utilVars, dockerVars>>

\* while (Date.now() - startTime < timeoutMs) ... throw new Error('Timeout ...')
LoopTest ==
  /\ wpc = "loopTest"
  /\ IF now - startTime < timeoutMs
       THEN /\ wpc' = "sleep"
            /\ UNCHANGED <<waitError, waitErrorData>>
       ELSE /\ wpc' = "timedOut"
            /\ waitError' = "Timeout"
            /\ waitErrorData' = <<[name |-> "seconds", thousandths |-> timeoutMs]>>
  /\ UNCHANGED <<waitParams, fileSize, now, startTime, lastSizes, currentSizes,
                 stableCount, readIndex, errorsLogged, waitSizes, waitHistory>>
  /\ UNCHANGED <<pipeVars, valVars, distVars, utilVars, dockerVars>>

\* await sleep(pollIntervalMs); const currentSizes = new Map()
Sleep ==
  /\ wpc = "sleep"
  /\ now' = now + pollIntervalMs
  /\ currentSizes' = EmptyMap
  /\ readIndex' = 1
  /\ prevObserved' = observed
  /\ masked' = {}
  /\ observed' = <<>>
  /\ wpc' = "read"
  /\ UNCHANGED <<waitParams, fileSize, startTime, lastSizes, stableCount, errorsLogged,
                 waitSizes, waitError, waitErrorData, polls, stableBefore, grewDuringWait,
                 ownStablePolls, unsettled>>
  /\ UNCHANGED <<pipeVars, valVars, distVars, utilVars, dockerVars>>

\* readFileSize: the size `wc -c` prints, or 0 when the command throws
readFileSize(file, throws) == IF throws THEN 0 ELSE fileSize[file]

ReadSize_fatal ==
  /\ wpc = "read"
  /\ LET target == targets[readIndex]
     IN  \E throws \in BOOLEAN :
           /\ throws => errorsLogged < MaxProbeFailures
           /\ LET size == readFileSize(FileOf(target), throws)
              IN  /\ currentSizes' = MapSet(currentSizes, target.container, size)
                  /\ observed' = Append(observed, size)
           /\ masked' = IF throws /\ fileSize[FileOf(target)] > 0
                          THEN masked \cup {readIndex} ELSE masked
           /\ errorsLogged' = IF throws THEN errorsLogged + 1 ELSE errorsLogged
           /\ wpc' = IF throws THEN "failed"
                     ELSE IF readIndex = Len(targets) THEN "evaluate" ELSE "read"
  /\ readIndex' = readIndex + 1
  /\ UNCHANGED <<waitParams, fileSize, now, startTime, lastSizes, stableCount,
                 waitSizes, waitError, waitErrorData, polls, prevObserved, stableBefore,
                 grewDuringWait, ownStablePolls, unsettled>>
  /\ UNCHANGED <<pipeVars, valVars, distVars, utilVars, dockerVars>>

ReadSize_evaluatesEarly ==
  /\ wpc = "read"
  /\ LET target == targets[readIndex]
     IN  \E throws \in BOOLEAN :
           /\ throws => errorsLogged < MaxProbeFailures
           /\ LET size == readFileSize(FileOf(target), throws)
              IN  /\ currentSizes' = MapSet(currentSizes, target.container, size)
                  /\ observed' = Append(observed, size)
           /\ masked' = IF throws /\ fileSize[FileOf(target)] > 0
                          THEN masked \cup {readIndex} ELSE masked
           /\ errorsLogged' = IF throws THEN errorsLogged + 1 ELSE errorsLogged
  /\ readIndex' = readIndex + 1
  /\ wpc' = "evaluate"
  /\ UNCHANGED <<waitParams, fileSize, now, startTime, lastSizes, stableCount,
                 waitSizes, waitError, waitErrorData, polls, prevObserved, stableBefore,
                 grewDuringWait, ownStablePolls, unsettled>>
  /\ UNCHANGED <<pipeVars, valVars, distVars, utilVars, dockerVars>>

ReadSize ==
  /\ wpc = "read"
  /\ LET target == targets[readIndex]
     IN  \E throws \in BOOLEAN :
           /\ throws => errorsLogged < MaxProbeFailures
           /\ LET size == readFileSize(FileOf(target), throws)
              IN  /\ currentSizes' = MapSet(currentSizes, target.container, size)
                  /\ observed' = Append(observed, size)
           /\ masked' = IF throws /\ fileSize[FileOf(target)] > 0
                          THEN masked \cup {readIndex} ELSE masked
           /\ errorsLogged' = IF throws THEN errorsLogged + 1 ELSE errorsLogged
  /\ readIndex' = readIndex + 1
  /\ wpc' = IF readIndex = Len(targets) THEN "evaluate" ELSE "read"
  /\ UNCHANGED <<waitParams, fileSize, now, startTime, lastSizes, stableCount,
                 waitSizes, waitError, waitErrorData, polls, prevObserved, stableBefore,
                 grewDuringWait, ownStablePolls, unsettled>>
  /\ UNCHANGED <<pipeVars, valVars, distVars, utilVars, dockerVars>>

MinimumOf(target) ==
  IF target.minimumBytes = <<>> THEN DefaultMinimumBytes ELSE target.minimumBytes[1]

\* every target's size, as read in the last poll, equals the size read from
\* the same target in the poll before and is at or above the target's minimum
TrulyStable ==
  /\ Len(prevObserved) = Len(targets)
  /\ \A i \in 1..Len(targets) :
       /\ observed[i] = prevObserved[i]
       /\ observed[i] >= MinimumOf(targets[i])

\* the size read from target i in the last poll differs from the size read
\* from the same target in the poll before
Changed(i) ==
  IF i \in DOMAIN observed /\ i \in DOMAIN prevObserved
    THEN observed[i] # prevObserved[i]
    ELSE TRUE

AllStable_firstPollStable ==
  \A i \in 1..Len(targets) :
    LET key == targets[i].container
        current == MapGet(currentSizes, key, 0)
        minimum == MinimumOf(targets[i])
    IN  /\ key \in DOMAIN lastSizes => lastSizes[key] = current
        /\ current >= minimum

AllStable ==
  \A i \in 1..Len(targets) :
    LET key == targets[i].container
        current == MapGet(currentSizes, key, 0)
        minimum == MinimumOf(targets[i])
    IN  /\ key \in DOMAIN lastSizes
        /\ lastSizes[key] = current
        /\ current >= minimum

Evaluate_strictThreshold ==
  /\ wpc = "evaluate"
  /\ stableBefore' = stableCount
  /\ polls' = polls + 1
  /\ ownStablePolls' = IF TrulyStable THEN ownStablePolls + 1 ELSE 0
  /\ unsettled' = IF polls = 0 THEN 1..Len(targets) ELSE {i \in unsettled : Changed(i)}
  /\ IF AllStable
       THEN /\ stableCount' = stableCount + 1
            /\ IF stableCount + 1 > stabilizationTarget
                 THEN /\ waitSizes' = currentSizes
                      /\ wpc' = "done"
                      /\ UNCHANGED lastSizes
                 ELSE /\ lastSizes' = currentSizes
                      /\ wpc' = "loopTest"
                      /\ UNCHANGED waitSizes
       ELSE /\ stableCount' = 0
            /\ lastSizes' = currentSizes
            /\ wpc' = "loopTest"
            /\ UNCHANGED waitSizes
  /\ UNCHANGED <<waitParams, fileSize, now, startTime, currentSizes, readIndex,
                 errorsLogged, waitError, waitErrorData, observed, prevObserved,
                 grewDuringWait, masked>>
  /\ UNCHANGED <<pipeVars, valVars, distVars, utilVars, dockerVars>>

Evaluate ==
  /\ wpc = "evaluate"
  /\ stableBefore' = stableCount
  /\ polls' = polls + 1
  /\ ownStablePolls' = IF TrulyStable THEN ownStablePolls + 1 ELSE 0
  /\ unsettled' = IF polls = 0 THEN 1..Len(targets) ELSE {i \in unsettled : Changed(i)}
  /\ IF AllStable
       THEN /\ stableCount' = stableCount + 1
            /\ IF stableCount + 1 >= stabilizationTarget
                 THEN /\ waitSizes' = currentSizes
                      /\ wpc' = "done"
                      /\ UNCHANGED lastSizes
                 ELSE /\ lastSizes' = currentSizes
                      /\ wpc' = "loopTest"
                      /\ UNCHANGED waitSizes
       ELSE /\ stableCount' = 0
            /\ lastSizes' = currentSizes
            /\ wpc' = "loopTest"
            /\ UNCHANGED waitSizes
  /\ UNCHANGED <<waitParams, fileSize, now, startTime, currentSizes, readIndex,
                 errorsLogged, waitError, waitErrorData, observed, prevObserved,
                 grewDuringWait, masked>>
  /\ UNCHANGED <<pipeVars, valVars, distVars, utilVars, dockerVars>>

WaitNext ==
  \/ Grow
  \/ WaitStart
  \/ LoopTest
  \/ Sleep
  \/ ReadSize
  \/ Evaluate

(* ================ validation.ts: validateDistribution ================== *)
MaxCount == 4

LineCountsInputs ==
  [source : 0..MaxCount, target1 : 0..MaxCount, target2 : 0..MaxCount, total : 0..MaxCount]

InitDistIdle ==
  /\ lineCounts = [source |-> 0, target1 |-> 0, target2 |-> 0, total |-> 0]
  /\ dpc = "idle"
  /\ distError = "none"
  /\ distLog = <<>>
  /\ distPercent = <<>>

InitDist ==
  /\ lineCounts \in LineCountsInputs
  /\ dpc = "call"
  /\ distError = "none"
  /\ distLog = <<>>
  /\ distPercent = <<>>

\* (x).toFixed(2) of x = (count / total) * 100, in hundredths of a percent
PercentHundredths(count, total) == (count * 10000 * 2 + total) \div (2 * total)

\* the logger.log calls that follow the three checks
DistributionReport(counts) ==
  <<"Target-1 lines", "Target-2 lines",
    IF counts.total > 1 THEN "Both targets received data"
                        ELSE "Single target handled the payload">>

validateDistribution_noDataAccepted(counts) ==
  IF counts.total > 1 /\ counts.target1 = 0
    THEN [error |-> "Target1NoData", log |-> <<"Distribution Validation">>, percent |-> <<>>]
  ELSE IF counts.total > 1 /\ counts.target2 = 0
    THEN [error |-> "Target2NoData", log |-> <<"Distribution Validation">>, percent |-> <<>>]
  ELSE [error |-> "none",
        log |-> <<"Distribution Validation">> \o DistributionReport(counts),
        percent |-> IF counts.total = 0 THEN <<>>
                    ELSE <<PercentHundredths(counts.target1, counts.total),
                           PercentHundredths(counts.total - counts.target1, counts.total)>>]

validateDistribution_namesSwapped(counts) ==
  IF counts.total = 0
    THEN [error |-> "NoData", log |-> <<"Distribution Validation">>, percent |-> <<>>]
  ELSE IF counts.total > 1 /\ counts.target1 = 0
    THEN [error |-> "Target2NoData", log |-> <<"Distribution Validation">>, percent |-> <<>>]
  ELSE IF counts.total > 1 /\ counts.target2 = 0
    THEN [error |-> "Target1NoData", log |-> <<"Distribution Validation">>, percent |-> <<>>]
  ELSE [error |-> "none",
        log |-> <<"Distribution Validation">> \o DistributionReport(counts),
        percent |-> <<PercentHundredths(counts.target1, counts.total),
                      PercentHundredths(counts.total - counts.target1, counts.total)>>]

validateDistribution_noExemption(counts) ==
  IF counts.total = 0
    THEN [error |-> "NoData", log |-> <<"Distribution Validation">>, percent |-> <<>>]
  ELSE IF counts.total >= 1 /\ counts.target1 = 0
    THEN [error |-> "Target1NoData", log |-> <<"Distribution Validation">>, percent |-> <<>>]
  ELSE IF counts.total >= 1 /\ counts.target2 = 0
    THEN [error |-> "Target2NoData", log |-> <<"Distribution Validation">>, percent |-> <<>>]
  ELSE [error |-> "none",
        log |-> <<"Distribution Validation">> \o DistributionReport(counts),
        percent |-> <<PercentHundredths(counts.target1, counts.total),
                      PercentHundredths(counts.total - counts.target1, counts.total)>>]

validateDistribution_rejectsSkew(counts) ==
  IF counts.total = 0
    THEN [error |-> "NoData", log |-> <<"Distribution Validation">>, percent |-> <<>>]
  ELSE IF counts.total > 1 /\ counts.target1 < counts.target2
    THEN [error |-> "Target1NoData", log |-> <<"Distribution Validation">>, percent |-> <<>>]
  ELSE IF counts.total > 1 /\ counts.target2 = 0
    THEN [error |-> "Target2NoData", log |-> <<"Distribution Validation">>, percent |-> <<>>]
  ELSE [error |-> "none",
        log |-> <<"Distribution Validation">> \o DistributionReport(counts),
        percent |-> <<PercentHundredths(counts.target1, counts.total),
                      PercentHundredths(counts.total - counts.target1, counts.total)>>]

\* validateDistribution(lineCounts): the error thrown ("none" if it returns),
\* the log lines written and the two percentages reported
validateDistribution(counts) ==
  IF counts.total = 0
    THEN [error |-> "NoData", log |-> <<"Distribution Validation">>, percent |-> <<>>]
  ELSE IF counts.total > 1 /\ counts.target1 = 0
    THEN [error |-> "Target1NoData", log |-> <<"Distribution Validation">>, percent |-> <<>>]
  ELSE IF counts.total > 1 /\ counts.target2 = 0
    THEN [error |-> "Target2NoData", log |-> <<"Distribution Validation">>, percent |-> <<>>]
  ELSE [error |-> "none",
        log |-> <<"Distribution Validation">> \o DistributionReport(counts),
        percent |-> <<PercentHundredths(counts.target1, counts.total),
                      PercentHundredths(counts.total - counts.target1, counts.total)>>]

ValidateDistribution_swallowsError ==
  /\ dpc = "call"
  /\ LET r == validateDistribution(lineCounts)
     IN  /\ distError' = "none"
         /\ distLog' = r.log
         /\ distPercent' = r.percent
         /\ dpc' = "returned"
  /\ UNCHANGED lineCounts
  /\ UNCHANGED <<pipeVars, valVars, waitVars, utilVars, dockerVars>>

ValidateDistribution ==
  /\ dpc = "call"
  /\ LET r == validateDistribution(lineCounts)
     IN  /\ distError' = r.error
         /\ distLog' = r.log
         /\ distPercent' = r.percent
         /\ dpc' = IF r.error = "none" THEN "returned" ELSE "threw"
  /\ UNCHANGED lineCounts
  /\ UNCHANGED <<pipeVars, valVars, waitVars, utilVars, dockerVars>>

DistNext == ValidateDistribution

\* The test passes the LineCounts validateDataIntegrity returned on to
\* validateDistribution.
PassCountsToDistribution ==
  /\ pc = "done"
  /\ outcome = "ok"
  /\ dpc = "idle"
  /\ lineCounts' = result
  /\ dpc' = "call"
  /\ UNCHANGED <<distError, distLog, distPercent>>
  /\ UNCHANGED <<pipeVars, valVars, waitVars, utilVars, dockerVars>>

(* ============ utils/frequency.ts: calls on one ledger ================== *)
MaxTextLen == 3

LedgerChars == PayloadChars \cup {LF}

FreqTexts == SeqsUpTo(LedgerChars, MaxTextLen)

InitFreqIdle ==
  /\ ledger = EmptyMap
  /\ ledgerBefore = EmptyMap
  /\ freqOp = "none"
  /\ freqText = <<>>
  /\ freqOk = TRUE

\* ledger = buildFrequency(text)
BuildFrequency ==
  /\ \E text \in FreqTexts :
       /\ ledger' = buildFrequency(text)
       /\ freqText' = text
  /\ ledgerBefore' = ledger
  /\ freqOp' = "build"
  /\ UNCHANGED freqOk
  /\ UNCHANGED <<pipeVars, valVars, waitVars, distVars, fileVars, dockerVars>>

\* ok = subtractFrequency(ledger, text), the ledger being mutated in place
SubtractFrequency ==
  /\ \E text \in FreqTexts :
       LET r == subtractFrequency(ledger, text)
       IN  /\ ledger' = r.freq
           /\ freqOk' = r.ok
           /\ freqText' = text
  /\ ledgerBefore' = ledger
  /\ freqOp' = "subtract"
  /\ UNCHANGED <<pipeVars, valVars, waitVars, distVars, fileVars, dockerVars>>

FreqNext ==
  \/ BuildFrequency
  \/ SubtractFrequency

(* ========== utils/files.ts: readLinesFromFile and countLines =========== *)
MaxContentLen == 4

FileContents == SeqsUpTo(Chars, MaxContentLen)

InitFileIdle ==
  /\ fileContent = <<>>
  /\ fpc = "idle"
  /\ fileLines = <<>>
  /\ fileCount = 0

InitFile ==
  /\ fileContent \in FileContents
  /\ fpc = "call"
  /\ fileLines = <<>>
  /\ fileCount = 0

\* the line list and the line count of one file
ReadFile ==
  /\ fpc = "call"
  /\ fileLines' = readLinesFromFile(fileContent)
  /\ fileCount' = countLines(fileContent)
  /\ fpc' = "read"
  /\ UNCHANGED fileContent
  /\ UNCHANGED <<pipeVars, valVars, waitVars, distVars, freqVars, dockerVars>>

FileNext == ReadFile

(* ================= utils/docker.ts: waitForHealth ====================== *)
MaxHealthTimeout == 4
MaxHealthPollInterval == 2

PsOutcomes == {"healthy", "pending", "failed"}

\* the status column of `docker compose ps`, one word per service
HealthyWord == <<"h", "e", "a", "l", "t", "h", "y">>

StatusWords ==
  { HealthyWord,
    <<"H", "e", "a", "l", "t", "h", "y">>,
    <<"u", "n">> \o HealthyWord,
    <<"s", "t", "a", "r", "t", "i", "n", "g">> }

MaxServices == 2

ServiceStatuses == SeqsUpTo(StatusWords, MaxServices)

\* the text of the ps output: one line per service
RECURSIVE PsText(_)
PsText(statuses) ==
  IF statuses = <<>> THEN <<>>
  ELSE Head(statuses) \o <<LF>> \o PsText(Tail(statuses))

LowerCase(ch) == IF ch = "H" THEN "h" ELSE ch

\* /healthy/i.test(output)
HealthyPattern(output) ==
  \E i \in 1..(Len(output) - Len(HealthyWord) + 1) :
    \A k \in 1..Len(HealthyWord) : LowerCase(output[i + k - 1]) = HealthyWord[k]

\* what one ps run does: it throws, or prints the statuses of the services
PsRuns == {[throws |-> TRUE, statuses |-> <<>>]}
            \cup {[throws |-> FALSE, statuses |-> st] : st \in ServiceStatuses}

PsOutcomeOf(run) ==
  IF run.throws THEN "failed"
  ELSE IF HealthyPattern(PsText(run.statuses)) THEN "healthy" ELSE "pending"

InitHealthIdle ==
  /\ healthTimeoutMs = 0
  /\ healthPollIntervalMs = 1
  /\ hnow = 0
  /\ deadline = 0
  /\ hpc = "idle"
  /\ psCalls = 0
  /\ delays = 0
  /\ psWarnings = 0
  /\ lastPs = "none"
  /\ psStatuses = <<>>
  /\ healthError = "none"

InitHealth ==
  /\ healthTimeoutMs \in 0..MaxHealthTimeout
  /\ healthPollIntervalMs \in 1..MaxHealthPollInterval
  /\ hnow = 0
  /\ deadline = 0
  /\ hpc = "start"
  /\ psCalls = 0
  /\ delays = 0
  /\ psWarnings = 0
  /\ lastPs = "none"
  /\ psStatuses = <<>>
  /\ healthError = "none"

\* const deadline = Date.now() + timeoutMs
HealthStart ==
  /\ hpc = "start"
  /\ deadline' = hnow + healthTimeoutMs
  /\ hpc' = "loopTest"
  /\ UNCHANGED <<healthTimeoutMs, healthPollIntervalMs, hnow, psCalls, delays, psWarnings,
                 lastPs, psStatuses, healthError>>
  /\ UNCHANGED <<pipeVars, valVars, waitVars, distVars, utilVars, cleanVars, buildVars>>

\* while (Date.now() < deadline) ... throw new Error('Services failed ...')
HealthLoopTest ==
  /\ hpc = "loopTest"
  /\ IF hnow < deadline
       THEN /\ hpc' = "ps"
            /\ UNCHANGED healthError
       ELSE /\ hpc' = "rejected"
            /\ healthError' = "NotHealthy"
  /\ UNCHANGED <<healthTimeoutMs, healthPollIntervalMs, hnow, deadline, psCalls, delays,
                 psWarnings, lastPs, psStatuses>>
  /\ UNCHANGED <<pipeVars, valVars, waitVars, distVars, utilVars, cleanVars, buildVars>>

HealthPs_failureFatal ==
  /\ hpc = "ps"
  /\ psCalls' = psCalls + 1
  /\ \E run \in PsRuns : LET out == PsOutcomeOf(run) IN
       /\ lastPs' = out
       /\ psStatuses' = run.statuses
       /\ psWarnings' = IF out = "failed" THEN psWarnings + 1 ELSE psWarnings
       /\ hpc' = IF out = "healthy" THEN "resolved"
                 ELSE IF out = "failed" THEN "rejected" ELSE "delay"
       /\ healthError' = IF out = "failed" THEN "NotHealthy" ELSE healthError
  /\ UNCHANGED <<healthTimeoutMs, healthPollIntervalMs, hnow, deadline, delays>>
  /\ UNCHANGED <<pipeVars, valVars, waitVars, distVars, utilVars, cleanVars, buildVars>>

\* runCompose("ps"): the output names a healthy service, or does not, or the
\* command throws (caught and logged as a warning)
HealthPs ==
  /\ hpc = "ps"
  /\ psCalls' = psCalls + 1
  /\ \E run \in PsRuns : LET out == PsOutcomeOf(run) IN
       /\ lastPs' = out
       /\ psStatuses' = run.statuses
       /\ psWarnings' = IF out = "failed" THEN psWarnings + 1 ELSE psWarnings
       /\ hpc' = IF out = "healthy" THEN "resolved" ELSE "delay"
       /\ UNCHANGED healthError
  /\ UNCHANGED <<healthTimeoutMs, healthPollIntervalMs, hnow, deadline, delays>>
  /\ UNCHANGED <<pipeVars, valVars, waitVars, distVars, utilVars, cleanVars, buildVars>>

\* await delay(pollIntervalMs)
HealthDelay ==
  /\ hpc = "delay"
  /\ hnow' = hnow + healthPollIntervalMs
  /\ delays' = delays + 1
  /\ hpc' = "loopTest"
  /\ UNCHANGED <<healthTimeoutMs, healthPollIntervalMs, deadline, psCalls, psWarnings,
                 lastPs, psStatuses, healthError>>
  /\ UNCHANGED <<pipeVars, valVars, waitVars, distVars, utilVars, cleanVars, buildVars>>

HealthNext ==
  \/ HealthStart
  \/ HealthLoopTest
  \/ HealthPs
  \/ HealthDelay

(* ================ utils/docker.ts: cleanEnvironment ==================== *)
EntryNames == {"runs", "stale.log", "target1.log"}

\* an entry of artifactsDir: missing, a file with content, a directory with
\* content, or an empty file
Absent == "absent"
EntryStates == {Absent, "stale", "dir", "empty"}

InitCleanIdle ==
  /\ entries = [e \in EntryNames |-> Absent]
  /\ entriesBefore = [e \in EntryNames |-> Absent]
  /\ targetFilenames = {}
  /\ preserve = {}
  /\ downFails = FALSE
  /\ cpc = "idle"
  /\ toRemove = {}
  /\ toCreate = {}
  /\ removed = {}
  /\ downWarned = FALSE

InitClean ==
  /\ entries \in [EntryNames -> {Absent, "stale", "dir"}]
  /\ entriesBefore = entries
  /\ targetFilenames \in SUBSET EntryNames
  /\ preserve \in SUBSET EntryNames
  /\ downFails \in BOOLEAN
  /\ cpc = "start"
  /\ toRemove = {}
  /\ toCreate = {}
  /\ removed = {}
  /\ downWarned = FALSE

Existing(dir) == {e \in EntryNames : dir[e] # Absent}

bringDown_rethrows ==
  /\ cpc = "start"
  /\ downWarned' = downFails
  /\ cpc' = IF downFails THEN "failed" ELSE "prepare"
  /\ UNCHANGED <<entries, entriesBefore, targetFilenames, preserve, downFails, toRemove,
                 toCreate, removed>>
  /\ UNCHANGED <<pipeVars, valVars, waitVars, distVars, utilVars, healthVars, buildVars>>

\* bringDown: `docker compose down -v`; a failure is logged and swallowed
bringDown ==
  /\ cpc = "start"
  /\ downWarned' = downFails
  /\ cpc' = "prepare"
  /\ UNCHANGED <<entries, entriesBefore, targetFilenames, preserve, downFails, toRemove,
                 toCreate, removed>>
  /\ UNCHANGED <<pipeVars, valVars, waitVars, distVars, utilVars, healthVars, buildVars>>

\* preserve empty: recreateDir(artifactsDir); otherwise ensureDirExists,
\* readdir, and one rm for every entry that is not preserved
PrepareDirectory ==
  /\ cpc = "prepare"
  /\ IF preserve = {}
       THEN /\ entries' = [e \in EntryNames |-> Absent]
            /\ removed' = Existing(entries)
            /\ toRemove' = {}
       ELSE /\ toRemove' = Existing(entries) \ preserve
            /\ UNCHANGED <<entries, removed>>
  /\ cpc' = "remove"
  /\ UNCHANGED <<entriesBefore, targetFilenames, preserve, downFails, toCreate, downWarned>>
  /\ UNCHANGED <<pipeVars, valVars, waitVars, distVars, utilVars, healthVars, buildVars>>

\* rmAsync(entryPath, { recursive: true, force: true }), in any order
RemoveEntry ==
  /\ cpc = "remove"
  /\ \E e \in toRemove :
       /\ entries' = [entries EXCEPT ![e] = Absent]
       /\ removed' = removed \cup {e}
       /\ toRemove' = toRemove \ {e}
  /\ UNCHANGED <<entriesBefore, targetFilenames, preserve, downFails, cpc, toCreate,
                 downWarned>>
  /\ UNCHANGED <<pipeVars, valVars, waitVars, distVars, utilVars, healthVars, buildVars>>

\* await Promise.all(...) has settled; createEmptyFiles begins
StartCreate ==
  /\ cpc = "remove"
  /\ toRemove = {}
  /\ toCreate' = targetFilenames
  /\ cpc' = "create"
  /\ UNCHANGED <<entries, entriesBefore, targetFilenames, preserve, downFails, toRemove,
                 removed, downWarned>>
  /\ UNCHANGED <<pipeVars, valVars, waitVars, distVars, utilVars, healthVars, buildVars>>

\* writeFile(filepath, ''): truncates or creates the file; throws on a directory
CreateEmptyFile ==
  /\ cpc = "create"
  /\ \E f \in toCreate :
       IF entries[f] = "dir"
         THEN /\ cpc' = "failed"
              /\ UNCHANGED <<entries, toCreate>>
         ELSE /\ entries' = [entries EXCEPT ![f] = "empty"]
              /\ toCreate' = toCreate \ {f}
              /\ UNCHANGED cpc
  /\ UNCHANGED <<entriesBefore, targetFilenames, preserve, downFails, toRemove, removed,
                 downWarned>>
  /\ UNCHANGED <<pipeVars, valVars, waitVars, distVars, utilVars, healthVars, buildVars>>

\* logger.log("Environment cleaned")
CleanDone ==
  /\ cpc = "create"
  /\ toCreate = {}
  /\ cpc' = "done"
  /\ UNCHANGED <<entries, entriesBefore, targetFilenames, preserve, downFails, toRemove,
                 toCreate, removed, downWarned>>
  /\ UNCHANGED <<pipeVars, valVars, waitVars, distVars, utilVars, healthVars, buildVars>>

CleanNext ==
  \/ bringDown
  \/ PrepareDirectory
  \/ RemoveEntry
  \/ StartCreate
  \/ CleanDone
  \/ CreateEmptyFile

(* =============== utils/docker.ts: buildImagesIfNeeded ================== *)
MaxBuildCalls == 4

REQUIRED_IMAGES ==
  {"automation-agent:latest", "automation-splitter:latest",
   "automation-target_1:latest", "automation-target_2:latest"}

NoCall == [flagBefore |-> "unset", listed |-> FALSE, found |-> FALSE,
           built |-> "no", outcome |-> "none"]

InitBuildIdle ==
  /\ imagesBuiltFlag = "unset"
  /\ dockerImages = {}
  /\ buildCalls = 0
  /\ listings = 0
  /\ buildRuns = 0
  /\ buildsCompleted = 0
  /\ lastCall = NoCall
  /\ prevCall = NoCall

\* a fresh process: the flag is unset unless the environment passed it in,
\* and any of the required images may exist already
InitBuild ==
  /\ imagesBuiltFlag \in {"unset", "true"}
  /\ dockerImages \in SUBSET REQUIRED_IMAGES
  /\ buildCalls = 0
  /\ listings = 0
  /\ buildRuns = 0
  /\ buildsCompleted = 0
  /\ lastCall = NoCall
  /\ prevCall = NoCall

\* try { REQUIRED_IMAGES.every(image => images.includes(image)) } catch { false }
areImagesBuilt(images, listThrows) ==
  IF listThrows THEN FALSE ELSE \A image \in REQUIRED_IMAGES : image \in images

\* the images a compose build leaves behind: all of them when it returns,
\* those it had finished, but not all, when it throws
ImagesAfterBuild(images, buildThrows) ==
  IF buildThrows
    THEN {after \in SUBSET REQUIRED_IMAGES :
            images \subseteq after /\ (after = REQUIRED_IMAGES => after = images)}
    ELSE {REQUIRED_IMAGES}

buildImagesIfNeeded_flagLeftUnset(listThrows, buildThrows) ==
  LET flagged == imagesBuiltFlag = "true"
      found == IF flagged THEN FALSE ELSE areImagesBuilt(dockerImages, listThrows)
      builds == ~flagged /\ ~found
  IN  /\ listings' = IF flagged THEN listings ELSE listings + 1
      /\ buildRuns' = IF builds THEN buildRuns + 1 ELSE buildRuns
      /\ buildsCompleted' = IF builds /\ ~buildThrows THEN buildsCompleted + 1
                            ELSE buildsCompleted
      /\ dockerImages' \in (IF builds THEN ImagesAfterBuild(dockerImages, buildThrows)
                            ELSE {dockerImages})
      /\ imagesBuiltFlag' = IF found THEN "true" ELSE imagesBuiltFlag
      /\ lastCall' = [flagBefore |-> imagesBuiltFlag,
                      listed |-> ~flagged,
                      found |-> found,
                      built |-> IF ~builds THEN "no" ELSE IF buildThrows THEN "threw" ELSE "ok",
                      outcome |-> IF builds /\ buildThrows THEN "threw" ELSE "returned"]

\* one call of buildImagesIfNeeded, given whether the image listing and the
\* compose build throw if they are run
buildImagesIfNeeded(listThrows, buildThrows) ==
  LET flagged == imagesBuiltFlag = "true"
      found == IF flagged THEN FALSE ELSE areImagesBuilt(dockerImages, listThrows)
      builds == ~flagged /\ ~found
  IN  /\ listings' = IF flagged THEN listings ELSE listings + 1
      /\ buildRuns' = IF builds THEN buildRuns + 1 ELSE buildRuns
      /\ buildsCompleted' = IF builds /\ ~buildThrows THEN buildsCompleted + 1
                            ELSE buildsCompleted
      /\ dockerImages' \in (IF builds THEN ImagesAfterBuild(dockerImages, buildThrows)
                            ELSE {dockerImages})
      /\ imagesBuiltFlag' = IF builds /\ buildThrows THEN imagesBuiltFlag ELSE "true"
      /\ lastCall' = [flagBefore |-> imagesBuiltFlag,
                      listed |-> ~flagged,
                      found |-> found,
                      built |-> IF ~builds THEN "no" ELSE IF buildThrows THEN "threw" ELSE "ok",
                      outcome |-> IF builds /\ buildThrows THEN "threw" ELSE "returned"]

BuildImagesIfNeeded ==
  /\ buildCalls < MaxBuildCalls
  /\ buildCalls' = buildCalls + 1
  /\ prevCall' = lastCall
  /\ \E listThrows \in BOOLEAN, buildThrows \in BOOLEAN :
       buildImagesIfNeeded(listThrows, buildThrows)
  /\ UNCHANGED <<pipeVars, valVars, waitVars, distVars, utilVars, healthVars, cleanVars>>

BuildNext == BuildImagesIfNeeded

vars == <<pipeVars, valVars, waitVars, distVars, utilVars, dockerVars>>

Init == InitPipeline /\ InitValidation /\ InitWaitIdle /\ InitDistIdle
        /\ InitFreqIdle /\ InitFileIdle /\ InitHealthIdle /\ InitCleanIdle
         /\ InitBuildIdle

Next ==
  \/ IntegrityNext
  \/ PassCountsToDistribution
  \/ ValidateDistribution

Spec == Init /\ [][Next]_vars

InitW == InitPipeline /\ InitValidation /\ InitWait /\ InitDistIdle
         /\ InitFreqIdle /\ InitFileIdle /\ InitHealthIdle /\ InitCleanIdle
         /\ InitBuildIdle

SpecWait == InitW /\ [][WaitNext]_vars

InitD == InitPipeline /\ InitValidation /\ InitWaitIdle /\ InitDist
         /\ InitFreqIdle /\ InitFileIdle /\ InitHealthIdle /\ InitCleanIdle
         /\ InitBuildIdle

SpecDist == InitD /\ [][DistNext]_vars

InitF == InitPipeline /\ InitValidation /\ InitWaitIdle /\ InitDistIdle
         /\ InitFreqIdle /\ InitFileIdle /\ InitHealthIdle /\ InitCleanIdle
         /\ InitBuildIdle

SpecFreq == InitF /\ [][FreqNext]_vars

InitR == InitPipeline /\ InitValidation /\ InitWaitIdle /\ InitDistIdle
         /\ InitFreqIdle /\ InitFile /\ InitHealthIdle /\ InitCleanIdle
         /\ InitBuildIdle

SpecFiles == InitR /\ [][FileNext]_vars

InitH == InitPipeline /\ InitValidation /\ InitWaitIdle /\ InitDistIdle
         /\ InitFreqIdle /\ InitFileIdle /\ InitHealth /\ InitCleanIdle
         /\ InitBuildIdle

SpecHealth == InitH /\ [][HealthNext]_vars

InitC == InitPipeline /\ InitValidation /\ InitWaitIdle /\ InitDistIdle
         /\ InitFreqIdle /\ InitFileIdle /\ InitHealthIdle /\ InitClean
         /\ InitBuildIdle

SpecClean == InitC /\ [][CleanNext]_vars

InitB == InitPipeline /\ InitValidation /\ InitWaitIdle /\ InitDistIdle
         /\ InitFreqIdle /\ InitFileIdle /\ InitHealthIdle /\ InitCleanIdle
         /\ InitBuild

SpecBuild == InitB /\ [][BuildNext]_vars

\* validateDataIntegrity called while the sinks are still being written
ConcurrentNext ==
  \/ IntegrityNext
  \/ AppendDuringCall

SpecConcurrent == Init /\ [][ConcurrentNext]_vars

(* ===================== properties: integrity =========================== *)
Done == pc = "done"

\* multiset of the elements of a sequence
BagOfSeq(s) ==
  [x \in {s[i] : i \in DOMAIN s} |-> Cardinality({i \in DOMAIN s : s[i] = x})]

\* every emitted record reached exactly one sink unaltered, and every record
\* carries its terminator
Conserved == faults = 0 /\ inflight = <<>> /\ Terminated(source)

SinkCharsEqualSource == BagOfSeq(target1) (+) BagOfSeq(target2) = BagOfSeq(source)

LineCountsEqual ==
  Len(readLinesFromFile(source))
    = Len(readLinesFromFile(target1)) + Len(readLinesFromFile(target2))

\* C1 (Conservation): when the source's terminated records are partitioned
\* over the two sinks without loss, duplication or alteration, the call
\* succeeds, each file's line list has one element per record, and the sink
\* record counts add up to the source record count.
C1_Conservation ==
  (Done /\ Conserved) =>
    /\ outcome = "ok"
    /\ Len(sourceLines) = Len(emitted)
    /\ Len(target1Lines) = Len(delivered1)
    /\ Len(target2Lines) = Len(delivered2)
    /\ Len(target1Lines) + Len(target2Lines) = Len(sourceLines)

C1_Witness ==
  /\ Done /\ Conserved /\ outcome = "ok"
  /\ Len(emitted) = 2
  /\ delivered1 # <<>> /\ delivered2 # <<>>

\* C2: a successful call implies that the multiset of lines of the two sinks
\* equals the multiset of lines of the source.
C2_RecordMultisetEquivalence ==
  (Done /\ outcome = "ok") =>
    BagOfSeq(readLinesFromFile(target1) \o readLinesFromFile(target2))
      = BagOfSeq(readLinesFromFile(source))

\* C3 (Multiset sensitivity): after exactly one character of one sink of a
\* faithful partition was replaced by a different character, with the line
\* counts still equal, the call fails with the reconciliation error.
C3_MultisetSensitivity ==
  (Done /\ inflight = <<>> /\ faults = 1 /\ lastFault = "mutate" /\ LineCountsEqual) =>
    outcome = "ReconciliationFailed"

C3_Witness ==
  /\ Done /\ inflight = <<>> /\ faults = 1 /\ lastFault = "mutate" /\ LineCountsEqual
  /\ outcome = "ReconciliationFailed"
  /\ delivered1 # <<>> /\ delivered2 # <<>>

\* C4: once the line-count check has passed, the reconciliation error is
\* raised exactly when the source's character multiset differs from the sum
\* of the sinks' character multisets, which is exactly when a subtraction
\* failed or the ledger is left non-empty.
C4_ReconciliationIffMultisetsDiffer ==
  (Done /\ outcome # "LineCountMismatch") =>
    /\ (outcome = "ReconciliationFailed") <=> ~SinkCharsEqualSource
    /\ (outcome = "ReconciliationFailed") <=> (~ok2 \/ MapSize(sourceFreq) # 0)
    /\ (outcome = "ok") <=> SinkCharsEqualSource

C4_Witness ==
  /\ Done /\ outcome = "ReconciliationFailed"
  /\ ok2 = TRUE /\ MapSize(sourceFreq) # 0

\* C5 (Fail-fast ordering): whenever the source's line count differs from
\* the sum of the sinks' line counts the call fails with the line-count
\* error carrying both numbers, and no ledger was built or subtracted from.
C5_LineCountFailFast ==
  /\ (Done /\ ~LineCountsEqual) =>
       /\ outcome = "LineCountMismatch"
       /\ errSource = Len(readLinesFromFile(source))
       /\ errTargets = Len(readLinesFromFile(target1)) + Len(readLinesFromFile(target2))
  /\ (outcome = "LineCountMismatch") => (ledgerBuilds = 0 /\ subtractCalls = 0)

C5_Witness ==
  /\ Done /\ outcome = "LineCountMismatch"
  /\ ~SinkCharsEqualSource
  /\ inflight = <<>>

\* C6 (Order independence): whatever sink and position each record of a
\* faithful partition landed in, the call succeeds; the warning is issued
\* exactly when sink1 ++ sink2 differs from the source line list, and a
\* warning never accompanies a failure.
C6_OrderIndependence ==
  /\ (Done /\ Conserved) =>
       /\ outcome = "ok"
       /\ warned <=> (target1Lines \o target2Lines # sourceLines)
  /\ warned => outcome \in {"none", "ok"}

C6_Witness ==
  /\ Done /\ Conserved /\ outcome = "ok" /\ warned
  /\ delivered1 \o delivered2 # emitted

\* C7: every returned LineCounts has total = target1 + target2 and
\* source = target1 + target2.
C7_LineCountsSum ==
  (Done /\ outcome = "ok") =>
    /\ result.total = result.target1 + result.target2
    /\ result.source = result.target1 + result.target2

C7_Witness ==
  /\ Done /\ outcome = "ok"
  /\ result.source = 2 /\ result.target1 = 1 /\ result.target2 = 1


(* =================== properties: waitForCompletion ===================== *)
\* the last poll has been evaluated and the next one has not begun
AfterEvaluate == polls >= 1 /\ wpc \in {"loopTest", "sleep", "done", "timedOut"}

\* the DONE result holds, for every container, the size read from it in the
\* last poll (the last read, if several targets name the container)
SizesOfThisPoll ==
  /\ DOMAIN waitSizes = {targets[i].container : i \in 1..Len(targets)}
  /\ \A i \in 1..Len(targets) :
       (\A j \in (i + 1)..Len(targets) : targets[j].container # targets[i].container)
         => waitSizes[targets[i].container] = observed[i]

RequiredStablePolls == IF stabilizationTarget < 1 THEN 1 ELSE stabilizationTarget

C9_PerPollTransition ==
  AfterEvaluate =>
    IF TrulyStable THEN stableCount = stableBefore + 1 ELSE stableCount = 0

\* the scenario of C10: one target whose file holds the same size, at or above
\* its minimum, from the first observation on, every read succeeding, and a
\* stabilization window of three polls
SteadySingleTarget ==
  /\ Len(targets) = 1
  /\ ~grewDuringWait
  /\ errorsLogged = 0
  /\ fileSize[FileOf(targets[1])] >= MinimumOf(targets[1])
  /\ stabilizationTarget = 3

\* C10 as stated: in the steady scenario the call resolves at the 3rd
\* observation.
C10_ResolvesAtThirdObservation ==
  (wpc = "done" /\ SteadySingleTarget) => polls = 3

\* C10 as amended: in the steady scenario the call resolves exactly at the
\* 4th observation, not earlier.
C10_ResolvesAtFourthObservation ==
  (AfterEvaluate /\ SteadySingleTarget) => ((wpc = "done") <=> (polls = 4))

C10_Witness ==
  /\ wpc = "done" /\ SteadySingleTarget
  /\ polls = 4
  /\ observed = <<4>> /\ prevObserved = <<4>>

\* the call has ended, with DONE or with the timeout error
WaitEnded == wpc \in {"done", "timedOut"}

\* C11 (Hard deadline): a call ends with the timeout error exactly when the
\* clock has reached startTime + timeoutMs; DONE is never reported at a clock
\* value at or past that deadline.
C11_HardDeadline ==
  WaitEnded => ((wpc = "timedOut") <=> (now >= startTime + timeoutMs))

\* C12 (Minimum threshold): a poll in which a target without minimumBytes was
\* read at size 0 is never a stable poll and never ends the call with DONE;
\* a poll in which every target has minimumBytes = 0 and was read at size 0,
\* as in the poll before, is a stable poll.
C12_MinimumThreshold ==
  AfterEvaluate =>
    /\ (\E i \in 1..Len(targets) : targets[i].minimumBytes = <<>> /\ observed[i] = 0)
         => (stableCount = 0 /\ wpc # "done")
    /\ ( /\ Len(prevObserved) = Len(targets)
         /\ \A i \in 1..Len(targets) :
              /\ targets[i].minimumBytes = <<0>>
              /\ observed[i] = 0
              /\ prevObserved[i] = 0 )
         => stableCount = stableBefore + 1

\* C13 (Probe failure): a size read that fails is logged, yields 0 as that
\* target's size of the poll, leaves the outcome open and passes on to the
\* next target or to the evaluation of the poll; every poll reads all the
\* targets, an evaluated poll leads to DONE or back to the loop test, and the
\* loop is left without DONE only at the deadline.
C13_ProbeFailureNonFatal ==
  [][ /\ (errorsLogged' # errorsLogged) =>
           /\ wpc = "read"
           /\ errorsLogged' = errorsLogged + 1
           /\ observed' = Append(observed, 0)
           /\ currentSizes'[targets[readIndex].container] = 0
           /\ readIndex' = readIndex + 1
           /\ wpc' = (IF readIndex < Len(targets) THEN "read" ELSE "evaluate")
           /\ waitError' = "none"
           /\ stableCount' = stableCount
           /\ lastSizes' = lastSizes
      /\ (wpc = "evaluate") =>
           /\ Len(observed) = Len(targets)
           /\ wpc' \in {"evaluate", "loopTest", "done"}
      /\ (wpc' \in {"timedOut", "failed"} /\ wpc # wpc') =>
           /\ errorsLogged' = errorsLogged
           /\ (Len(targets) > 0 => now >= startTime + timeoutMs) ]_vars

C13_Witness ==
  /\ AfterEvaluate
  /\ polls >= 2
  /\ errorsLogged = 1
  /\ ~grewDuringWait
  /\ Len(targets) = 2
  /\ prevObserved = <<0, ChunkBytes>>
  /\ observed = <<ChunkBytes, ChunkBytes>>

\* C14: a call with an empty target list fails with the insufficient-targets
\* error, and no delay was awaited and no size was read before it; no other
\* call fails with that error.
C14_EmptyTargetsRejected ==
  /\ (Len(targets) = 0) =>
       /\ wpc \in {"start", "failed"}
       /\ (wpc = "failed") => (waitError = "InsufficientTargets")
       /\ now = 0
       /\ polls = 0
       /\ observed = <<>>
       /\ currentSizes = EmptyMap
       /\ errorsLogged = 0
  /\ (waitError = "InsufficientTargets") => (Len(targets) = 0)

C14_Witness ==
  /\ Len(targets) = 0
  /\ wpc = "failed"
  /\ waitError = "InsufficientTargets"

\* C15: the timeout error carries, for every watched target, the last size
\* known for it.
C15_TimeoutCarriesLastSizes ==
  (wpc = "timedOut") =>
    \A i \in 1..Len(targets) :
      \E j \in 1..Len(waitErrorData) :
        /\ waitErrorData[j].name = targets[i].container
        /\ waitErrorData[j].thousandths = MapGet(lastSizes, targets[i].container, 0)

(* ================= properties: validateDistribution ==================== *)
\* the call has returned or thrown
DistEnded == dpc \in {"returned", "threw"}

C17_ZeroTotalFails ==
  (DistEnded /\ lineCounts.total = 0) => (dpc = "threw" /\ distError = "NoData")

C17_Witness ==
  /\ dpc = "threw"
  /\ distError = "NoData"
  /\ lineCounts.total = 0
  /\ lineCounts.source = 0 /\ lineCounts.target1 = 0 /\ lineCounts.target2 = 0

\* C18 (Single-record exemption): for every LineCounts with total = 1 the
\* call returns, whichever count is 0, and reports a single-target payload.
C18_SingleRecordExemption ==
  (DistEnded /\ lineCounts.total = 1) =>
    /\ dpc = "returned"
    /\ distError = "none"
    /\ Last(distLog) = "Single target handled the payload"

C18_Witness ==
  /\ dpc = "returned"
  /\ lineCounts = [source |-> 1, target1 |-> 0, target2 |-> 1, total |-> 1]

\* C19 (Skew never fails): for every LineCounts with total > 1 and both sink
\* counts above 0 the call returns, whatever the split; the two percentages
\* are reported and decide nothing.
C19_SkewNeverFails ==
  (DistEnded /\ lineCounts.total > 1 /\ lineCounts.target1 > 0 /\ lineCounts.target2 > 0) =>
    /\ dpc = "returned"
    /\ distError = "none"
    /\ distPercent = <<PercentHundredths(lineCounts.target1, lineCounts.total),
                       PercentHundredths(lineCounts.total - lineCounts.target1,
                                         lineCounts.total)>>
    /\ Last(distLog) = "Both targets received data"

C19_Witness ==
  /\ dpc = "returned"
  /\ lineCounts = [source |-> 4, target1 |-> 1, target2 |-> 3, total |-> 4]
  /\ distPercent = <<2500, 7500>>

(* ================== properties: the empty scenario ===================== *)
EmptyScenario == source = <<>> /\ target1 = <<>> /\ target2 = <<>>

ZeroCounts == [source |-> 0, target1 |-> 0, target2 |-> 0, total |-> 0]

\* C20 as stated: with an empty source and empty sinks the call returns
\* {0,0,0,0} and subtractFrequency was not invoked.
C20_EmptySourceNoSubtraction ==
  (Done /\ EmptyScenario) =>
    /\ outcome = "ok"
    /\ result = ZeroCounts
    /\ subtractCalls = 0

\* C20 as amended: with an empty source and empty sinks the call returns
\* {0,0,0,0} without a warning; subtractFrequency is invoked once per sink
\* on the empty ledger, succeeds both times and leaves the ledger empty.
C20_EmptySourceYieldsZeroCounts ==
  (Done /\ EmptyScenario) =>
    /\ outcome = "ok"
    /\ result = ZeroCounts
    /\ ~warned
    /\ ledgerBuilds = 1
    /\ subtractCalls = 2
    /\ ok1 = TRUE /\ ok2 = TRUE
    /\ MapSize(sourceFreq) = 0

C20_Witness ==
  /\ Done /\ EmptyScenario
  /\ emitted = <<>>
  /\ outcome = "ok"
  /\ result.total = 0

\* C21 as stated: a source of zero bytes gives {0,0,0,0}, and
\* validateDistribution applied to that result returns without error.
C21_EmptyInputPassesDistribution ==
  (Done /\ source = <<>>) =>
    /\ outcome = "ok"
    /\ result = ZeroCounts
    /\ DistEnded => (lineCounts = ZeroCounts /\ dpc = "returned" /\ distError = "none")

\* C21 as amended: a source of zero bytes gives {0,0,0,0}, and
\* validateDistribution applied to that result fails with the no-data error
\* before any percentage is reported.
C21_EmptyInputFailsDistribution ==
  (Done /\ source = <<>>) =>
    /\ outcome = "ok"
    /\ result = ZeroCounts
    /\ DistEnded =>
         /\ lineCounts = ZeroCounts
         /\ dpc = "threw"
         /\ distError = "NoData"
         /\ distPercent = <<>>

C21_Witness ==
  /\ Done /\ source = <<>>
  /\ lineCounts = ZeroCounts
  /\ dpc = "threw"

(* ===================== properties: the ledger ========================== *)
Occurrences(text, ch) == Cardinality({i \in DOMAIN text : text[i] = ch})

CountIn(m, ch) == IF ch \in DOMAIN m THEN m[ch] ELSE 0

\* the multiset of the text's tokens is contained in the map's multiset
ContainsTokens(m, text) ==
  \A ch \in LedgerChars : Occurrences(text, ch) <= CountIn(m, ch)

\* the multiset difference map minus text, without entries for zero counts
MinusTokens(m, text) ==
  [ch \in {c \in DOMAIN m : m[c] - Occurrences(text, c) > 0}
     |-> m[ch] - Occurrences(text, ch)]

\* position of the first token of the text that the map, less the tokens
\* before it, does not hold
FirstMissing(m, text) ==
  CHOOSE p \in 1..Len(text) :
    /\ ~ContainsTokens(m, SubSeq(text, 1, p))
    /\ \A q \in 1..(p - 1) : ContainsTokens(m, SubSeq(text, 1, q))

RECURSIVE SumCounts(_, _)
SumCounts(m, keys) ==
  IF keys = {} THEN 0
  ELSE LET k == CHOOSE x \in keys : TRUE
       IN  m[k] + SumCounts(m, keys \ {k})

\* C22: subtractFrequency returns true exactly when the multiset of the
\* tokens is contained in the ledger's multiset, and then leaves the ledger
\* equal to the multiset difference, zero counts removed from the map.
C22_SubtractIffContained ==
  (freqOp = "subtract") =>
    /\ freqOk <=> ContainsTokens(ledgerBefore, freqText)
    /\ freqOk => (ledger = MinusTokens(ledgerBefore, freqText))

C22_Witness ==
  /\ freqOp = "subtract"
  /\ freqOk
  /\ Len(freqText) = 2
  /\ MapSize(ledgerBefore) = 2
  /\ MapSize(ledger) = 1

\* C23: a subtractFrequency call that returns false stopped at the first
\* token the ledger did not hold: the ledger is the original less exactly
\* the tokens before that token, and nothing after it was subtracted.
C23_FailsAtFirstMissingToken ==
  (freqOp = "subtract" /\ ~freqOk) =>
    LET p == FirstMissing(ledgerBefore, freqText)
    IN  /\ ledger = MinusTokens(ledgerBefore, SubSeq(freqText, 1, p - 1))
        /\ CountIn(ledger, freqText[p]) = 0

C23_Witness ==
  /\ freqOp = "subtract"
  /\ ~freqOk
  /\ Len(freqText) = 3
  /\ FirstMissing(ledgerBefore, freqText) = 2
  /\ ledger # ledgerBefore
  /\ CountIn(ledger, freqText[3]) > 0

\* C24: buildFrequency maps every distinct token to its number of
\* occurrences, the counts adding up to the number of tokens; after any
\* sequence of buildFrequency and subtractFrequency calls every entry of the
\* ledger has a count of at least 1.
C24_LedgerCountsPositive ==
  /\ (freqOp = "build") =>
       /\ DOMAIN ledger = {freqText[i] : i \in DOMAIN freqText}
       /\ \A ch \in DOMAIN ledger : ledger[ch] = Occurrences(freqText, ch)
       /\ SumCounts(ledger, DOMAIN ledger) = Len(freqText)
  /\ \A ch \in DOMAIN ledger : ledger[ch] >= 1

C24_Witness ==
  /\ freqOp = "build"
  /\ freqText = <<"a", "b", "a">>
  /\ ledger["a"] = 2
  /\ ledgerBefore # EmptyMap

(* ================= properties: record splitting ======================== *)
LFPositions(content) == {i \in 1..Len(content) : content[i] = LF}

EndsWithTerminator(content) == IF content = <<>> THEN FALSE ELSE Last(content) = LF

\* the record that the terminator at position p ends: the characters after
\* the previous \n, without the \r of a \r\n terminator
RecordEndingAt(content, p) ==
  LET earlier == {j \in LFPositions(content) : j < p}
      q == IF earlier = {} THEN 0 ELSE CHOOSE j \in earlier : \A k \in earlier : k <= j
      raw == SubSeq(content, q + 1, p - 1)
  IN  IF raw = <<>> THEN raw
      ELSE IF raw[Len(raw)] = CR THEN SubSeq(raw, 1, Len(raw) - 1) ELSE raw

RecordIndex(content, p) == Cardinality({j \in LFPositions(content) : j <= p})

\* C25: countLines counts the \n characters; for content ending in a
\* terminator readLinesFromFile returns exactly one element per \n, each the
\* characters before it without the \r of a \r\n, blank records included
\* and no trailing empty element; empty content gives 0 for both.
C25_RecordSplitting ==
  (fpc = "read") =>
    /\ fileCount = Cardinality(LFPositions(fileContent))
    /\ (fileContent = <<>>) => (fileLines = <<>> /\ fileCount = 0)
    /\ EndsWithTerminator(fileContent) =>
         /\ Len(fileLines) = fileCount
         /\ \A p \in LFPositions(fileContent) :
              fileLines[RecordIndex(fileContent, p)] = RecordEndingAt(fileContent, p)

C25_Witness ==
  /\ fpc = "read"
  /\ fileContent = <<"a", CR, LF, LF>>
  /\ fileLines = << <<"a">>, <<>> >>
  /\ fileCount = 2

(* ==================== properties: waitForHealth ======================== *)
\* C26: the call resolves right after the first ps run that reports healthy,
\* with no delay after it; a ps run that fails or reports no healthy service
\* is followed by a delay and the next loop test; the call rejects with the
\* not-healthy error at the first loop test at which the clock has reached
\* the deadline, never earlier.
C26_HealthPolling ==
  /\ (lastPs = "healthy") => (hpc = "resolved")
  /\ (hpc = "resolved") =>
       /\ lastPs = "healthy"
       /\ delays = psCalls - 1
       /\ hnow < deadline
       /\ healthError = "none"
  /\ (hpc = "delay") => (lastPs \in {"pending", "failed"} /\ delays = psCalls - 1)
  /\ (hpc \in {"loopTest", "ps"}) => (delays = psCalls /\ healthError = "none")
  /\ (hpc = "ps") => (hnow < deadline)
  /\ (hpc = "rejected") =>
       /\ healthError = "NotHealthy"
       /\ hnow >= deadline
       /\ (delays > 0) => (hnow - healthPollIntervalMs < deadline)
       /\ lastPs # "healthy"
       /\ delays = psCalls
  /\ psWarnings <= psCalls

C26_Witness ==
  /\ hpc = "resolved"
  /\ psCalls = 3
  /\ psWarnings = 1
  /\ delays = 2

MaxPollsOfCall == (timeoutMs + pollIntervalMs - 1) \div pollIntervalMs

\* C28: a call on a non-empty target list evaluates at most
\* ceil(timeoutMs / pollIntervalMs) polls and ends with exactly one outcome,
\* DONE with its sizes or the timeout error with none; a call in which some
\* target's own size changed in every poll never ends with DONE.
C28_BoundedPollsOneOutcome ==
  (Len(targets) > 0) =>
    /\ polls <= MaxPollsOfCall
    /\ wpc # "failed"
    /\ (wpc = "done") => (waitError = "none" /\ unsettled = {})
    /\ (wpc = "timedOut") => (waitError = "Timeout" /\ waitSizes = EmptyMap)
    /\ (~WaitEnded) => (waitError = "none" /\ waitSizes = EmptyMap)

\* C29: the stability evaluation of a poll starts only when every target has
\* been read in that poll, after exactly one delay since the evaluation of
\* the poll before; while the reads are in progress exactly the first
\* readIndex - 1 targets have been read and the counter is not touched.
C29_PollsStrictlySequential ==
  /\ (wpc = "evaluate") =>
       /\ Len(observed) = Len(targets)
       /\ readIndex = Len(targets) + 1
       /\ DOMAIN currentSizes = {targets[i].container : i \in 1..Len(targets)}
       /\ now - startTime = (polls + 1) * pollIntervalMs
  /\ (wpc = "read") =>
       /\ readIndex <= Len(targets)
       /\ Len(observed) = readIndex - 1
       /\ DOMAIN currentSizes = {targets[i].container : i \in 1..(readIndex - 1)}
       /\ now - startTime = (polls + 1) * pollIntervalMs
  /\ (wpc \in {"loopTest", "sleep", "done", "timedOut"}) =>
       /\ now - startTime = polls * pollIntervalMs
       /\ (polls >= 1) => (Len(observed) = Len(targets))
       /\ (polls >= 2) => (Len(prevObserved) = Len(targets))

C29_Witness ==
  /\ wpc = "evaluate"
  /\ Len(targets) = 2
  /\ polls = 1
  /\ observed # prevObserved
  /\ grewDuringWait

\* C30: when the call reports DONE with k = ceil(stabilizationMs /
\* pollIntervalMs) >= 1, every target's own size repeated its previous one,
\* at or above its minimum, in each of the last k polls, so it was the same
\* in the last k + 1 polls, which span at least stabilizationMs.
C30_DoneAfterStableSpan ==
  (wpc = "done" /\ stabilizationTarget >= 1) =>
    /\ ownStablePolls >= stabilizationTarget
    /\ ownStablePolls * pollIntervalMs >= stabilizationMs

C32_DoneSizesAreActualReads ==
  (wpc = "done") =>
    \A i \in 1..Len(targets) :
      /\ waitSizes[targets[i].container] = observed[i]
      /\ i \notin masked

\* C33: for every target list, two targets of one container included, the
\* stability check made in a poll is passed exactly when every target's own
\* size equals its own size of the poll before and is at or above its
\* minimum, and a DONE result holds one size per target.
C33_EachTargetComparedWithItself ==
  /\ (wpc = "evaluate") => (AllStable <=> TrulyStable)
  /\ (wpc = "done") => (Cardinality(DOMAIN waitSizes) = Len(targets))

(* ============ properties: the counts validateDataIntegrity returns ===== *)
\* C34: on every successful validateDataIntegrity each returned count is the
\* number of records in the line list of its file, the numbers the
\* line-count step compared, also when a last record has no terminator.
C34_CountsAreRecordCounts ==
  (Done /\ outcome = "ok") =>
    /\ result.source = Len(sourceLines)
    /\ result.target1 = Len(target1Lines)
    /\ result.target2 = Len(target2Lines)

\* C35: when validateDataIntegrity succeeded on a source of more than one
\* record with at least one record in each sink file, validateDistribution
\* on the returned counts returns without error.
C35_SinkWithRecordNotStarved ==
  (Done /\ outcome = "ok" /\ DistEnded) =>
    ((Len(sourceLines) > 1 /\ Len(target1Lines) >= 1 /\ Len(target2Lines) >= 1)
       => (dpc = "returned" /\ distError = "none"))

(* ======== properties: validateDataIntegrity under concurrent writes ==== *)
\* C36: within one validateDataIntegrity call the line lists used by the
\* line-count check are the line lists of the very bytes used by the
\* character reconciliation, for each of the three files, also when a sink
\* file is appended to during the call.
C36_ChecksSeeSameContent ==
  (pc \notin {"feed", "readLines"}) =>
    /\ sourceLines = readLinesFromFile(sourceBuf)
    /\ target1Lines = readLinesFromFile(target1Buf)
    /\ target2Lines = readLinesFromFile(target2Buf)

(* ============== properties: waitForHealth, what resolves it ============ *)
\* C37: waitForHealth resolves only when the last ps output reports the
\* services as healthy: every service listed has the status healthy, and an
\* output listing an unhealthy or a starting service does not resolve it.
C37_ResolvesOnlyWhenHealthy ==
  (hpc = "resolved") =>
    /\ psStatuses # <<>>
    /\ \A i \in 1..Len(psStatuses) :
         [k \in 1..Len(psStatuses[i]) |-> LowerCase(psStatuses[i][k])] = HealthyWord

(* ================ properties: buildImagesIfNeeded ====================== *)
\* what C38 says of every sequence of calls but its last clause: the compose
\* build completes at most once; a call that returns leaves the flag 'true';
\* a call that finds the flag 'true' neither lists the images nor builds; a
\* call whose build throws leaves the flag unset
BuildOncePerProcess ==
  /\ buildsCompleted <= 1
  /\ (lastCall.outcome = "returned") => (imagesBuiltFlag = "true")
  /\ (buildCalls >= 1 /\ lastCall.flagBefore = "true") =>
       (~lastCall.listed /\ lastCall.built = "no" /\ lastCall.outcome = "returned")
  /\ (buildCalls >= 2 /\ prevCall.outcome = "returned") =>
       (~lastCall.listed /\ lastCall.built = "no")
  /\ (lastCall.outcome = "threw") =>
       (lastCall.built = "threw" /\ imagesBuiltFlag = "unset")

\* C38 as stated: the above, and the call that follows a call whose build
\* threw attempts the build again.
C38_BuildRetriedAfterFailure ==
  /\ BuildOncePerProcess
  /\ (buildCalls >= 2 /\ prevCall.outcome = "threw") => (lastCall.built # "no")

\* C38 as amended: the above, and the call that follows a call whose build
\* threw is not skipped by the flag: it lists the images again and runs the
\* build again exactly when the listing does not show every required image.
C38_BuildRetriedUnlessImagesFound ==
  /\ BuildOncePerProcess
  /\ (buildCalls >= 2 /\ prevCall.outcome = "threw") =>
       /\ lastCall.flagBefore = "unset"
       /\ lastCall.listed
       /\ (lastCall.built # "no") <=> ~lastCall.found

C38_Witness ==
  /\ buildCalls = 2
  /\ prevCall.outcome = "threw"
  /\ lastCall.built = "ok"
  /\ buildRuns = 2
  /\ buildsCompleted = 1
  /\ imagesBuiltFlag = "true"

====
